---------------------------- MODULE Spec2Model ----------------------------
(***************************************************************************)
(* Coastal Waves inventory: the serial-number codec (backend/app/serials)  *)
(* and the bulk-import reconciler (backend/app/importer), as a state       *)
(* machine over the inventory table and the reconcile calls in progress.   *)
(*                                                                         *)
(* A text is a sequence of one-character strings, so that strip, upper,    *)
(* the regular expression, str.replace and zfill are computed as Python    *)
(* computes them.                                                          *)
(***************************************************************************)
EXTENDS Integers, Sequences, FiniteSets, TLC

VARIABLES
    inventory,  \* the committed inventory_items table, in insertion order
    call,       \* per worker: the process_inventory_upload call it runs
    processed,  \* spreadsheet rows read so far, over all calls
    codec       \* a serial text on its way through parse_serial_number and
                \* SerialComponents.serial_number

vars == <<inventory, call, processed, codec>>

\* Bound: spreadsheet rows read over all calls of one behaviour.
MaxRows == 3

\* The workers able to run a reconcile call.
Workers == {1, 2}

---------------------------------------------------------------------------
\* Text primitives of Python's str.

LOWER_LETTERS == <<"a","b","c","d","e","f","g","h","i","j","k","l","m","n","o","p","q","r","s","t","u","v","w","x","y","z">>

UPPER_LETTERS == <<"A","B","C","D","E","F","G","H","I","J","K","L","M","N","O","P","Q","R","S","T","U","V","W","X","Y","Z">>

DIGIT_CHARS == <<"0","1","2","3","4","5","6","7","8","9">>

\* Characters in ascending code point order (what sorted() compares by).
CODE_POINTS == <<" ", "'", ",", "-">> \o DIGIT_CHARS \o UPPER_LETTERS \o <<"_">> \o LOWER_LETTERS

Range(s) == {s[i] : i \in DOMAIN s}

\* A decimal digit outside ASCII (ARABIC-INDIC DIGIT THREE), which \d matches.
NON_ASCII_DIGITS == {"U+0663"}

WHITESPACE == {" "}

\* [A-Z0-9]
UPPER_ALNUM == Range(UPPER_LETTERS) \cup Range(DIGIT_CHARS)

\* \d on a str pattern: any Unicode decimal digit
DECIMAL_DIGITS == Range(DIGIT_CHARS) \cup NON_ASCII_DIGITS

UpperChar(ch) ==
    IF \E i \in DOMAIN LOWER_LETTERS : LOWER_LETTERS[i] = ch
    THEN UPPER_LETTERS[CHOOSE i \in DOMAIN LOWER_LETTERS : LOWER_LETTERS[i] = ch]
    ELSE ch

\* str.upper()
Upper(s) == [i \in 1..Len(s) |-> UpperChar(s[i])]

RECURSIVE LStrip(_)
LStrip(s) == IF s # <<>> /\ Head(s) \in WHITESPACE THEN LStrip(Tail(s)) ELSE s

RECURSIVE RStrip(_)
RStrip(s) ==
    IF s # <<>> /\ s[Len(s)] \in WHITESPACE
    THEN RStrip(SubSeq(s, 1, Len(s) - 1))
    ELSE s

\* str.strip()
Strip(s) == RStrip(LStrip(s))

\* str.split(sep) for a one-character separator
RECURSIVE Split(_, _)
Split(s, sep) ==
    IF \E i \in DOMAIN s : s[i] = sep
    THEN LET i == CHOOSE k \in DOMAIN s : s[k] = sep /\ \A j \in 1..(k - 1) : s[j] # sep
         IN  <<SubSeq(s, 1, i - 1)>> \o Split(SubSeq(s, i + 1, Len(s)), sep)
    ELSE <<s>>

StartsWith(s, prefix) ==
    Len(s) >= Len(prefix) /\ SubSeq(s, 1, Len(prefix)) = prefix

\* str.replace(old, new): every non-overlapping occurrence, left to right
RECURSIVE Replace(_, _, _)
Replace(s, old, new) ==
    IF s = <<>> THEN <<>>
    ELSE IF StartsWith(s, old)
         THEN new \o Replace(SubSeq(s, Len(old) + 1, Len(s)), old, new)
         ELSE <<Head(s)>> \o Replace(Tail(s), old, new)

\* str(n) for n >= 0
RECURSIVE IntToStr(_)
IntToStr(n) ==
    IF n < 10 THEN <<DIGIT_CHARS[n + 1]>>
    ELSE IntToStr(n \div 10) \o <<DIGIT_CHARS[(n % 10) + 1]>>

\* str.zfill(width)
RECURSIVE ZFill(_, _)
ZFill(s, width) == IF Len(s) >= width THEN s ELSE ZFill(<<"0">> \o s, width)

\* Optional[str]
None == [some |-> FALSE, val |-> <<>>]

Some(text) == [some |-> TRUE, val |-> text]

\* Python truthiness of an Optional[str]
Truthy(opt) == opt.some /\ opt.val # <<>>

\* A message: its format text and the texts substituted into it.
Msg(text, args) == [text |-> text, args |-> args]

---------------------------------------------------------------------------
\* serials.py

PTG == <<"P","T","G">>

PLACEHOLDER == <<"0","0","0","0">>

HYPHEN == <<"-">>

\* [A-Z0-9]{lo,hi}
IsCode(seg, lo, hi) ==
    Len(seg) >= lo /\ Len(seg) <= hi /\ \A i \in DOMAIN seg : seg[i] \in UPPER_ALNUM

\* \d{4}
IsSequence(seg) == Len(seg) = 4 /\ \A i \in DOMAIN seg : seg[i] \in DECIMAL_DIGITS

\* SERIAL_PATTERN.match(text): no code holds a hyphen, so a match is five
\* hyphen-separated segments.
SERIAL_PATTERN(text) ==
    LET parts == Split(text, "-")
    IN  /\ Len(parts) = 5
        /\ parts[1] = PTG
        /\ IsCode(parts[2], 2, 10)
        /\ IsCode(parts[3], 2, 12)
        /\ IsCode(parts[4], 2, 8)
        /\ IsSequence(parts[5])

FormatError ==
    Msg("Serial number must follow PTG-<PAINTING>-<VARIANT>-<LOCATION>-<SEQUENCE> with codes in uppercase.", <<>>)

NoError == Msg("", <<>>)

SerialComponents(painting_code, variant_code, location_code, sequence) ==
    [painting_code |-> painting_code, variant_code |-> variant_code,
     location_code |-> location_code, sequence |-> sequence]

\* SerialComponents.serial_number
serial_number(c) ==
    PTG \o HYPHEN \o c.painting_code \o HYPHEN \o c.variant_code \o HYPHEN
        \o c.location_code \o HYPHEN \o c.sequence

\* parse_serial_number: [raised, error, components]
parse_serial_number(text) ==
    LET t == Strip(text)
        parts == Split(t, "-")
    IN  IF SERIAL_PATTERN(t)
        THEN [raised |-> FALSE, error |-> NoError,
              components |-> SerialComponents(parts[2], parts[3], parts[4], parts[5])]
        ELSE [raised |-> TRUE, error |-> FormatError,
              components |-> SerialComponents(<<>>, <<>>, <<>>, <<>>)]

Take(s, n) == SubSeq(s, 1, IF Len(s) < n THEN Len(s) ELSE n)

\* re.sub(r"[^A-Z0-9]", "", text.upper())[:4]
CodePart(text) == Take(SelectSeq(Upper(text), LAMBDA ch : ch \in UPPER_ALNUM), 4)

build_variant_code(category, size, stretch, framing) ==
    CodePart(category) \o CodePart(size)
        \o <<IF stretch THEN "S" ELSE "N">> \o <<IF framing THEN "F" ELSE "N">>

\* validate_serial_against_components: the error raised, NoError when none
validate_serial_against_components(text, expected) ==
    LET parsed == parse_serial_number(text)
    IN  IF parsed.raised THEN parsed.error
        ELSE IF parsed.components.painting_code # expected.painting_code
             THEN Msg("Painting code in serial number does not match record.", <<>>)
        ELSE IF parsed.components.variant_code # expected.variant_code
             THEN Msg("Variant code in serial number does not match record.", <<>>)
        ELSE IF parsed.components.location_code # expected.location_code
             THEN Msg("Location code in serial number does not match record.", <<>>)
        ELSE NoError

next_sequence_number(existing_count) == ZFill(IntToStr(existing_count + 1), 4)

---------------------------------------------------------------------------
\* The catalog (models.py).  Paintings, variants and locations are fixed;
\* reconcile only reads them.

PaintingRow(id, code) == [id |-> id, code |-> code]

\* the paintings table; a code of 2-10 characters (schemas.PaintingBase)
Paintings ==
    << PaintingRow(1, <<"A","B">>),
       PaintingRow(2, <<"P","0","0","0","0">>) >>

NoPainting == PaintingRow(0, <<>>)

VariantRow(id, painting_id, category, size, stretch, framing) ==
    [id |-> id, painting_id |-> painting_id, category |-> category,
     size |-> size, stretch |-> stretch, framing |-> framing]

\* the product_variants table
ProductVariants ==
    << VariantRow(1, 1, <<"C","a","n","v","a","s">>, <<"5","x","7">>, FALSE, FALSE),
       VariantRow(2, 2, <<"C","a","n","v","a","s">>, <<"5","x","7">>, FALSE, FALSE) >>

NoVariant == VariantRow(0, 0, <<>>, <<>>, FALSE, FALSE)

LocationRow(id, code) == [id |-> id, code |-> code]

\* the locations table
Locations ==
    << LocationRow(1, <<"G","A">>),
       LocationRow(2, <<"S","T">>) >>

NoLocation == LocationRow(0, <<>>)

InventoryItem(painting_id, variant_id, location_id, serial, quantity, unit_cost, unit_price) ==
    [painting_id |-> painting_id, variant_id |-> variant_id,
     location_id |-> location_id, serial_number |-> serial,
     quantity |-> quantity, unit_cost |-> unit_cost, unit_price |-> unit_price]

\* Query.first(): the first row of a table among those at the indices hits
\* (the rows the filter keeps), or None
First(table, hits, none) ==
    IF hits = {} THEN none
    ELSE table[CHOOSE i \in hits : \A j \in hits : i <= j]

\* db.query(models.Painting).filter_by(code=painting_code).first()
PaintingByCode(code) ==
    First(Paintings, {i \in DOMAIN Paintings : Paintings[i].code = code}, NoPainting)

\* db.query(models.Location).filter_by(code=location_code).first()
LocationByCode(code) ==
    First(Locations, {i \in DOMAIN Locations : Locations[i].code = code}, NoLocation)

\* painting.variants
VariantsOf(painting) == SelectSeq(ProductVariants, LAMBDA v : v.painting_id = painting.id)

ShortCode(v) == build_variant_code(v.category, v.size, v.stretch, v.framing)

\* the loop over painting.variants: the first candidate whose short code matches
VariantByShortCode(painting, variant_code) ==
    LET candidates == VariantsOf(painting)
    IN  First(candidates,
              {i \in DOMAIN candidates : ShortCode(candidates[i]) = variant_code},
              NoVariant)

\* Mutant: the table declares no uniqueness constraint.
NoUniqueConstraint(table) == FALSE

\* UniqueConstraint("serial_number"): would the table hold a serial twice?
UniqueViolation(table) ==
    \E i, j \in DOMAIN table : i # j /\ table[i].serial_number = table[j].serial_number

---------------------------------------------------------------------------
\* importer.py: helpers

\* a spreadsheet cell read as a number, or one that holds no number
Num(n) == [num |-> TRUE, val |-> n]

NotNum == [num |-> FALSE, val |-> 0]

_normalize_int(cell) == IF cell.num THEN cell.val ELSE 0

foreign_key == <<"f","o","r","e","i","g","n","_","k","e","y">>

item_desc == <<"i","t","e","m","_","d","e","s","c">>

location == <<"l","o","c","a","t","i","o","n">>

stocked == <<"s","t","o","c","k","e","d">>

sold == <<"s","o","l","d">>

quantity == <<"q","u","a","n","t","i","t","y">>

EXPECTED_COLUMNS == {foreign_key, item_desc, location, stocked, sold, quantity}

_validate_columns(columns) == {col \in EXPECTED_COLUMNS : col \notin columns}

CodePoint(ch) == CHOOSE i \in DOMAIN CODE_POINTS : CODE_POINTS[i] = ch

\* a < b on str
RECURSIVE TextLess(_, _)
TextLess(a, b) ==
    IF a = <<>> THEN b # <<>>
    ELSE IF b = <<>> THEN FALSE
    ELSE IF Head(a) = Head(b) THEN TextLess(Tail(a), Tail(b))
    ELSE CodePoint(Head(a)) < CodePoint(Head(b))

\* Mutant: the missing columns in the order EXPECTED_COLUMNS is written in.
Unsorted(texts) ==
    SelectSeq(<<foreign_key, item_desc, location, stocked, sold, quantity>>,
              LAMBDA col : col \in texts)

\* sorted(texts), the texts being distinct
RECURSIVE Sorted(_)
Sorted(texts) ==
    IF texts = {} THEN <<>>
    ELSE LET least == CHOOSE x \in texts : \A y \in texts \ {x} : TextLess(x, y)
         IN  <<least>> \o Sorted(texts \ {least})

\* sep.join(texts)
RECURSIVE Join(_, _)
Join(sep, texts) ==
    IF texts = <<>> THEN <<>>
    ELSE IF Len(texts) = 1 THEN texts[1]
    ELSE texts[1] \o sep \o Join(sep, Tail(texts))

\* the ValueError of a header that lacks required columns
MissingColumnsError(missing) ==
    Msg("Missing required columns: %s", <<Join(<<",", " ">>, Sorted(missing))>>)

ImportRow(row_number, serial, desc, painting_code, variant_code, location_code, st, so, qty, errors) ==
    [row_number |-> row_number, serial_number |-> serial, item_desc |-> desc,
     painting_code |-> painting_code, variant_code |-> variant_code,
     location_code |-> location_code, stocked |-> st, sold |-> so,
     quantity |-> qty, errors |-> errors]

ImportResult(dry_run, imported, failed, rows) ==
    [dry_run |-> dry_run, imported |-> imported, failed |-> failed, rows |-> rows]

NoResult == ImportResult(FALSE, 0, 0, <<>>)

---------------------------------------------------------------------------
\* importer.py: process_inventory_upload, one spreadsheet row

\* a row of the dataframe: the texts str() gives for the text columns, and
\* the number cells
SheetRow(serial, desc, loc, st, so, qty) ==
    [foreign_key |-> serial, item_desc |-> desc, location |-> loc,
     stocked |-> st, sold |-> so, quantity |-> qty]

Max(a, b) == IF a >= b THEN a ELSE b

\* lines 99-101
RowQuantity(qty, st, so) ==
    IF qty = 0 /\ (st # 0 \/ so # 0) THEN Max(st - so, 0) ELSE qty

\* Mutant: the mismatch is reported only for a column naming no location.
location_mismatch_unknown(location_code, provided_location_code) ==
    /\ Truthy(location_code)
    /\ provided_location_code # <<>>
    /\ location_code.val # provided_location_code
    /\ LocationByCode(provided_location_code) = NoLocation

\* line 116
location_mismatch(location_code, provided_location_code) ==
    /\ Truthy(location_code)
    /\ provided_location_code # <<>>
    /\ location_code.val # provided_location_code

\* Mutant: the location column is never adopted.
parsed_location_only(location_code, provided_location_code) == location_code

\* lines 116-119: the location code after the location column is looked at
adopted_location(location_code, provided_location_code) ==
    IF location_mismatch(location_code, provided_location_code) THEN location_code
    ELSE IF ~Truthy(location_code) /\ provided_location_code # <<>>
         THEN Some(provided_location_code)
         ELSE location_code

\* lines 166-170: rows LIKE 'PTG-<code>-%'
existing_count(db, painting) ==
    Cardinality({i \in DOMAIN db :
        StartsWith(db[i].serial_number, PTG \o HYPHEN \o Upper(painting.code) \o HYPHEN)})

\* lines 171-175
assign_serial(serial_raw, expected_components, sequence, count) ==
    IF sequence = PLACEHOLDER
    THEN Replace(serial_number(expected_components), sequence, next_sequence_number(count))
    ELSE serial_raw

\* Mutant: the duplicate query is left out.
duplicate_unchecked(db, inventory_serial) == FALSE

\* lines 177-182
duplicate(db, inventory_serial) ==
    \E i \in DOMAIN db : db[i].serial_number = inventory_serial

SerialRequired == Msg("Serial number is required", <<>>)

LocationMismatch == Msg("Location column does not match serial number", <<>>)

DuplicateError == Msg("Serial number already exists in inventory", <<>>)

PaintingNotFound(code) == Msg("Painting code '%s' not found", <<code>>)

VariantNotMapped(variant_code, painting_code) ==
    Msg("Variant code '%s' not mapped to painting '%s'", <<variant_code, painting_code>>)

LocationNotFound(code) == Msg("Location code '%s' not found", <<code>>)

\* Mutant: the variant's category and size are passed in the wrong order.
ExpectedComponentsSwapped(painting, variant, loc, serial_raw) ==
    SerialComponents(Upper(painting.code),
                     build_variant_code(variant.size, variant.category,
                                        variant.stretch, variant.framing),
                     Upper(loc.code),
                     parse_serial_number(serial_raw).components.sequence)

\* lines 151-158: the components the resolved catalog rows expect
ExpectedComponents(painting, variant, loc, serial_raw) ==
    SerialComponents(Upper(painting.code),
                     build_variant_code(variant.category, variant.size,
                                        variant.stretch, variant.framing),
                     Upper(loc.code),
                     parse_serial_number(serial_raw).components.sequence)

NoRow ==
    [index |-> 0, serial_raw |-> <<>>, item_desc |-> <<>>,
     painting_code |-> None, variant_code |-> None, location_code |-> None,
     stocked |-> 0, sold |-> 0, quantity |-> 0, errors |-> <<>>,
     painting |-> NoPainting, variant |-> NoVariant, location |-> NoLocation,
     validated |-> FALSE, existing_count |-> 0, inventory_serial |-> <<>>]

\* lines 91-175: the locals of one iteration up to the duplicate query, read
\* against the inventory rows db that the session sees
RowLocals(row, idx, db) ==
    LET serial_raw == Strip(row.foreign_key)
        st == _normalize_int(row.stocked)
        so == _normalize_int(row.sold)
        qty == RowQuantity(_normalize_int(row.quantity), st, so)
        provided_location_code == Upper(Strip(row.location))
        parsed == parse_serial_number(serial_raw)
        parsedOk == serial_raw # <<>> /\ ~parsed.raised
        errors1 ==
            IF serial_raw = <<>> THEN <<SerialRequired>>
            ELSE IF parsed.raised THEN <<parsed.error>>
            ELSE <<>>
        painting_code == IF parsedOk THEN Some(parsed.components.painting_code) ELSE None
        variant_code == IF parsedOk THEN Some(parsed.components.variant_code) ELSE None
        parsed_location == IF parsedOk THEN Some(parsed.components.location_code) ELSE None
        errors2 ==
            IF location_mismatch(parsed_location, provided_location_code)
            THEN Append(errors1, LocationMismatch)
            ELSE errors1
        location_code == adopted_location(parsed_location, provided_location_code)
        painting ==
            IF Truthy(painting_code) THEN PaintingByCode(painting_code.val) ELSE NoPainting
        errors3 ==
            IF Truthy(painting_code) /\ painting = NoPainting
            THEN Append(errors2, PaintingNotFound(painting_code.val))
            ELSE errors2
        variant ==
            IF painting # NoPainting /\ Truthy(variant_code)
            THEN VariantByShortCode(painting, variant_code.val)
            ELSE NoVariant
        errors4 ==
            IF painting # NoPainting /\ Truthy(variant_code) /\ variant = NoVariant
            THEN Append(errors3, VariantNotMapped(variant_code.val, painting_code.val))
            ELSE errors3
        loc ==
            IF Truthy(location_code) THEN LocationByCode(location_code.val) ELSE NoLocation
        errors5 ==
            IF Truthy(location_code) /\ loc = NoLocation
            THEN Append(errors4, LocationNotFound(location_code.val))
            ELSE errors4
        resolved ==
            painting # NoPainting /\ variant # NoVariant /\ loc # NoLocation /\ errors5 = <<>>
        expected_components == ExpectedComponents(painting, variant, loc, serial_raw)
        validation == validate_serial_against_components(serial_raw, expected_components)
        validated == resolved /\ validation = NoError
        errors6 == IF resolved /\ ~validated THEN Append(errors5, validation) ELSE errors5
        count == IF validated THEN existing_count(db, painting) ELSE 0
    IN  [index |-> idx, serial_raw |-> serial_raw, item_desc |-> Strip(row.item_desc),
         painting_code |-> painting_code, variant_code |-> variant_code,
         location_code |-> location_code,
         stocked |-> st, sold |-> so, quantity |-> qty, errors |-> errors6,
         painting |-> painting, variant |-> variant, location |-> loc,
         validated |-> validated, existing_count |-> count,
         inventory_serial |->
             IF validated
             THEN assign_serial(serial_raw, expected_components,
                                parsed.components.sequence, count)
             ELSE serial_raw]

\* lines 177-183: the errors of the row after the duplicate query
RowErrors(cur, db) ==
    IF cur.validated /\ duplicate(db, cur.inventory_serial)
    THEN Append(cur.errors, DuplicateError)
    ELSE cur.errors

\* line 199
Accepted(errors, painting, variant, loc) ==
    errors = <<>> /\ painting # NoPainting /\ variant # NoVariant /\ loc # NoLocation

\* Mutant: a rejected row is counted only when its painting resolved.
CountedFailedResolved(errors, painting, variant, loc) ==
    errors # <<>> /\ painting # NoPainting

\* line 214
CountedFailed(errors, painting, variant, loc) ==
    ~Accepted(errors, painting, variant, loc) /\ errors # <<>>

\* Mutant: the record is added in a dry run too.
AddsAlways(dry_run) == TRUE

\* lines 200-212: is a record added to the session for an accepted row?
Adds(dry_run) == ~dry_run

\* line 217: is the session committed after the loop?
Commits(dry_run) == ~dry_run

\* Mutant: the record takes the stocked column for its quantity.
NewRecordStocked(cur) ==
    InventoryItem(cur.painting.id, cur.variant.id, cur.location.id,
                  cur.inventory_serial, cur.stocked, 0, 0)

\* lines 203-211
NewRecord(cur) ==
    InventoryItem(cur.painting.id, cur.variant.id, cur.location.id,
                  cur.inventory_serial, cur.quantity, 0, 0)

---------------------------------------------------------------------------
\* The rows and headers an upload is drawn from.

\* PTG-AB-CANV5X7NN-GA-0000
SERIAL_AB_AUTO == <<"P","T","G","-","A","B","-","C","A","N","V","5","X","7","N","N","-","G","A","-","0","0","0","0">>

\* " PTG-AB-CANV5X7NN-GA-0002 "
SERIAL_AB_2 == <<" ","P","T","G","-","A","B","-","C","A","N","V","5","X","7","N","N","-","G","A","-","0","0","0","2"," ">>

\* PTG-P0000-CANV5X7NN-GA-0000
SERIAL_P0000_AUTO == <<"P","T","G","-","P","0","0","0","0","-","C","A","N","V","5","X","7","N","N","-","G","A","-","0","0","0","0">>

\* PTG-ZZ-CANV5X7NN-NO-0001: no such painting, no such location
SERIAL_UNKNOWN == <<"P","T","G","-","Z","Z","-","C","A","N","V","5","X","7","N","N","-","N","O","-","0","0","0","1">>

\* PTG-AB-XX-GA-0001: no such variant
SERIAL_NO_VARIANT == <<"P","T","G","-","A","B","-","X","X","-","G","A","-","0","0","0","1">>

\* "ptg-ab": not in the grammar
SERIAL_BAD == <<"p","t","g","-","a","b">>

\* a blank cell text
BLANK == <<" ">>

DESC == <<"a","r","t"," ">>

RowInputs ==
    { SheetRow(SERIAL_AB_AUTO, DESC, <<>>, Num(4), Num(1), Num(0)),
      SheetRow(SERIAL_AB_2, DESC, <<"g","a">>, Num(0), Num(0), Num(2)),
      SheetRow(SERIAL_P0000_AUTO, DESC, <<>>, NotNum, NotNum, Num(1)),
      SheetRow(SERIAL_AB_AUTO, DESC, <<"S","T">>, Num(0), Num(0), Num(1)),
      SheetRow(SERIAL_AB_2, DESC, <<"N","O">>, Num(0), Num(0), Num(1)),
      SheetRow(SERIAL_UNKNOWN, DESC, <<"G","A">>, Num(0), Num(0), Num(1)),
      SheetRow(SERIAL_NO_VARIANT, DESC, <<"G","A">>, Num(1), Num(3), Num(0)),
      SheetRow(BLANK, DESC, <<"S","T">>, Num(0), Num(0), Num(1)),
      SheetRow(BLANK, DESC, <<>>, Num(0), Num(0), NotNum),
      SheetRow(SERIAL_BAD, DESC, <<"N","O">>, Num(0), Num(0), Num(1)),
      SheetRow(SERIAL_BAD, DESC, <<>>, Num(0), Num(0), Num(1)) }

\* the rows of two uploads that race for a sequence number
RaceInputs ==
    { SheetRow(SERIAL_AB_AUTO, DESC, <<>>, Num(4), Num(1), Num(0)),
      SheetRow(SERIAL_AB_2, DESC, <<>>, Num(0), Num(0), Num(2)),
      SheetRow(SERIAL_BAD, DESC, <<>>, Num(0), Num(0), Num(1)) }

\* the normalized headers of an upload
Headers == SUBSET EXPECTED_COLUMNS

RaceHeaders == {EXPECTED_COLUMNS, EXPECTED_COLUMNS \ {quantity}}

---------------------------------------------------------------------------
\* The state machine.

IntegrityError == Msg("IntegrityError: UNIQUE constraint failed: inventory_items.serial_number", <<>>)

NoCall ==
    [pc |-> "idle", dry_run |-> FALSE, columns |-> {}, df |-> <<>>, cur |-> NoRow,
     rows |-> <<>>, imported |-> 0, failed |-> 0, session |-> <<>>, log |-> <<>>,
     error |-> NoError, result |-> NoResult]

\* The inventory rows a query of worker c's session sees: the committed
\* table and the records the session has added (flushed before the query).
Visible(c) == inventory \o call[c].session

\* no text is passing through the codec
NoCodec ==
    [pc |-> "none", segments |-> <<>>, text |-> <<>>,
     parsed |-> [raised |-> FALSE, error |-> NoError,
                 components |-> SerialComponents(<<>>, <<>>, <<>>, <<>>)],
     formatted |-> <<>>]

Init ==
    /\ inventory = <<>>
    /\ call = [c \in Workers |-> NoCall]
    /\ processed = 0
    /\ codec = NoCodec

\* lines 80-88: a call starts; the header is checked before any row is read
StartCall(c, headers) ==
    /\ call[c].pc = "idle"
    /\ \E dry_run \in BOOLEAN, columns \in headers :
          LET missing == _validate_columns(columns)
          IN  call' = [call EXCEPT ![c] =
                  IF missing # {}
                  THEN [NoCall EXCEPT !.pc = "raised", !.dry_run = dry_run,
                                      !.columns = columns,
                                      !.error = MissingColumnsError(missing)]
                  ELSE [NoCall EXCEPT !.pc = "loop", !.dry_run = dry_run,
                                      !.columns = columns]]
    /\ UNCHANGED <<inventory, processed, codec>>

\* lines 90-175: the next row of the sheet, up to the sequence assignment
ReadRow(c, inputs) ==
    /\ call[c].pc = "loop"
    /\ processed < MaxRows
    /\ \E row \in inputs :
          call' = [call EXCEPT ![c].pc = "row",
                               ![c].df = Append(@, row),
                               ![c].cur = RowLocals(row, Len(call[c].df), Visible(c))]
    /\ processed' = processed + 1
    /\ UNCHANGED <<inventory, codec>>

\* lines 177-215: the duplicate query, the ImportRow, and the decision
FinishRow(c) ==
    /\ call[c].pc = "row"
    /\ LET cur == call[c].cur
           errors == RowErrors(cur, Visible(c))
           import_row ==
               ImportRow(cur.index + 2, cur.inventory_serial, cur.item_desc,
                         cur.painting_code, cur.variant_code, cur.location_code,
                         cur.stocked, cur.sold, cur.quantity, errors)
           accepted == Accepted(errors, cur.painting, cur.variant, cur.location)
           added == accepted /\ Adds(call[c].dry_run)
       IN  call' = [call EXCEPT
               ![c].pc = "loop",
               ![c].rows = Append(@, import_row),
               ![c].imported = IF accepted THEN @ + 1 ELSE @,
               ![c].failed =
                   IF CountedFailed(errors, cur.painting, cur.variant, cur.location)
                   THEN @ + 1 ELSE @,
               ![c].session = IF added THEN Append(@, NewRecord(cur)) ELSE @,
               ![c].log = IF added THEN Append(@, [op |-> "add", item |-> NewRecord(cur)])
                          ELSE @]
    /\ UNCHANGED <<inventory, processed, codec>>

\* lines 217-225: the sheet is exhausted; commit unless a dry run, and return.
\* The commit stores the whole session or, on a uniqueness conflict, nothing.
EndCall(c) ==
    /\ call[c].pc = "loop"
    /\ LET commits == Commits(call[c].dry_run)
           conflict == commits /\ UniqueViolation(inventory \o call[c].session)
           log == IF commits
                  THEN Append(call[c].log, [op |-> "commit", item |-> NewRecord(NoRow)])
                  ELSE call[c].log
       IN  /\ inventory' = IF commits /\ ~conflict
                           THEN inventory \o call[c].session
                           ELSE inventory
           /\ call' = [call EXCEPT
                  ![c].pc = IF conflict THEN "raised" ELSE "returned",
                  ![c].log = log,
                  ![c].session = <<>>,
                  ![c].error = IF conflict THEN IntegrityError ELSE NoError,
                  ![c].result =
                      IF conflict THEN NoResult
                      ELSE ImportResult(call[c].dry_run, call[c].imported,
                                        call[c].failed, call[c].rows)]
    /\ UNCHANGED <<processed, codec>>

\* The caller has the call's result or error; the worker is free for the
\* next request.
Release(c) ==
    /\ call[c].pc \in {"returned", "raised"}
    /\ call' = [call EXCEPT ![c] = NoCall]
    /\ UNCHANGED <<inventory, processed, codec>>

\* One reconcile call at a time (a single writer).
Next ==
    \/ StartCall(1, Headers)
    \/ ReadRow(1, RowInputs)
    \/ FinishRow(1)
    \/ EndCall(1)
    \/ Release(1)

Spec == Init /\ [][Next]_vars

\* Two workers, whose reconcile calls may overlap.
NextConcurrent ==
    \E c \in Workers :
        \/ StartCall(c, RaceHeaders)
        \/ ReadRow(c, RaceInputs)
        \/ FinishRow(c)
        \/ EndCall(c)
        \/ Release(c)

SpecConcurrent == Init /\ [][NextConcurrent]_vars

\* process_inventory_upload(df, db, dry_run=True) as a function of the sheet
\* and the table: a dry run adds nothing to its session, so every row is
\* read against the committed table alone.
DryRunRow(df, i, db) ==
    LET cur == RowLocals(df[i], i - 1, db)
    IN  [cur EXCEPT !.errors = RowErrors(cur, db)]

DryRun(df, db) ==
    LET locals == [i \in DOMAIN df |-> DryRunRow(df, i, db)]
        rows == [i \in DOMAIN df |->
                    ImportRow(locals[i].index + 2, locals[i].inventory_serial,
                              locals[i].item_desc, locals[i].painting_code,
                              locals[i].variant_code, locals[i].location_code,
                              locals[i].stocked, locals[i].sold, locals[i].quantity,
                              locals[i].errors)]
        imported ==
            Cardinality({i \in DOMAIN df :
                Accepted(locals[i].errors, locals[i].painting, locals[i].variant,
                         locals[i].location)})
        failed ==
            Cardinality({i \in DOMAIN df :
                CountedFailed(locals[i].errors, locals[i].painting, locals[i].variant,
                              locals[i].location)})
    IN  ImportResult(TRUE, imported, failed, rows)

---------------------------------------------------------------------------
\* The serial codec on its own: a text is built from a prefix, four
\* segments and surrounding blanks, parsed, and the parsed components are
\* formatted back.

\* painting segments: "", A, AB, ab, A-B, P0000, ten and eleven characters
CodecPaintings ==
    { <<>>,
      <<"A">>,
      <<"A","B">>,
      <<"a","b">>,
      <<"A","-","B">>,
      <<"P","0","0","0","0">>,
      <<"A","B","C","D","E","F","G","H","I","J">>,
      <<"A","B","C","D","E","F","G","H","I","J","K">> }

\* variant segments: X, XX, CANV5X7NN, twelve and thirteen characters
CodecVariants ==
    { <<"X">>,
      <<"X","X">>,
      <<"C","A","N","V","5","X","7","N","N">>,
      <<"C","A","N","V","5","X","7","N","N","1","2","3">>,
      <<"C","A","N","V","5","X","7","N","N","1","2","3","4">> }

\* location segments: G, GA, ga, eight and nine characters
CodecLocations ==
    { <<"G">>,
      <<"G","A">>,
      <<"g","a">>,
      <<"S","T","U","D","I","O","0","1">>,
      <<"S","T","U","D","I","O","0","1","2">> }

\* sequence segments: 0000, 0001, 123, 12345, 0A00, and 00<U+0663>0
CodecSequences ==
    { <<"0","0","0","0">>,
      <<"0","0","0","1">>,
      <<"1","2","3">>,
      <<"1","2","3","4","5">>,
      <<"0","A","0","0">>,
      <<"0","0","U+0663","0">> }

\* prefixes: PTG, ptg, PT
CodecPrefixes ==
    { <<"P","T","G">>,
      <<"p","t","g">>,
      <<"P","T">> }

CodecPadding == {<<>>, <<" ">>}

\* the text written from a prefix and four segments, hyphen-separated
BuildText(lpad, prefix, segments, rpad) ==
    lpad \o prefix \o HYPHEN \o segments[1] \o HYPHEN \o segments[2] \o HYPHEN
         \o segments[3] \o HYPHEN \o segments[4] \o rpad

InitCodec ==
    /\ inventory = <<>>
    /\ call = [c \in Workers |-> NoCall]
    /\ processed = 0
    /\ \E lpad \in CodecPadding, rpad \in CodecPadding, prefix \in CodecPrefixes,
          p \in CodecPaintings, v \in CodecVariants, l \in CodecLocations,
          q \in CodecSequences :
          codec = [NoCodec EXCEPT !.pc = "input", !.segments = <<p, v, l, q>>,
                                  !.text = BuildText(lpad, prefix, <<p, v, l, q>>, rpad)]

\* serials.py lines 26-37
ParseText ==
    /\ codec.pc = "input"
    /\ codec' = [codec EXCEPT !.pc = "parsed", !.parsed = parse_serial_number(codec.text)]
    /\ UNCHANGED <<inventory, call, processed>>

\* serials.py lines 21-23, on the components a parse returned
FormatComponents ==
    /\ codec.pc = "parsed"
    /\ ~codec.parsed.raised
    /\ codec' = [codec EXCEPT !.pc = "formatted",
                              !.formatted = serial_number(codec.parsed.components)]
    /\ UNCHANGED <<inventory, call, processed>>

NextCodec ==
    \/ ParseText
    \/ FormatComponents

SpecCodec == InitCodec /\ [][NextCodec]_vars

---------------------------------------------------------------------------
\* Vocabulary of the properties.

Has(errors, m) == \E i \in DOMAIN errors : errors[i] = m

\* the serial text of a sheet row, trimmed, and its parse
SerialText(row) == Strip(row.foreign_key)

Parses(row) == SerialText(row) # <<>> /\ ~parse_serial_number(SerialText(row)).raised

Parsed(row) == parse_serial_number(SerialText(row)).components

\* the location column of a sheet row, trimmed and uppercased
LocationColumn(row) == Upper(Strip(row.location))

\* the last hyphen-separated segment of a serial
SequenceOf(serial) == LET parts == Split(serial, "-") IN parts[Len(parts)]

\* inventory rows of a table that carry PTG-<code>-
PrefixCount(table, code) ==
    Cardinality({i \in DOMAIN table :
        StartsWith(table[i].serial_number, PTG \o HYPHEN \o code \o HYPHEN)})

\* n as four zero-padded digits
FourDigits(n) ==
    <<DIGIT_CHARS[((n \div 1000) % 10) + 1], DIGIT_CHARS[((n \div 100) % 10) + 1],
      DIGIT_CHARS[((n \div 10) % 10) + 1], DIGIT_CHARS[(n % 10) + 1]>>

\* the rows of worker c's call that have an ImportRow
Done(c) == 1..Len(call[c].rows)

\* the finished rows of worker c's call whose serial names painting code
RowsFor(c, code) ==
    {i \in Done(c) : Parses(call[c].df[i]) /\ Parsed(call[c].df[i]).painting_code = code}

\* apart from its sequence a finished row is valid: nothing but the
\* duplicate check has rejected it
OtherwiseValid(c, i) == call[c].rows[i].errors \in {<<>>, <<DuplicateError>>}

InProgress(c) == call[c].pc \in {"loop", "row"}

---------------------------------------------------------------------------
\* C1: in one non-dry-run call with no concurrent writer, when a painting
\* has n inventory rows carrying its prefix before the call and the call's
\* rows for that painting all carry the placeholder 0000 and are otherwise
\* valid, the k-th such row in input order is assigned sequence n+k, as four
\* zero-padded digits.  (While the call is in progress the committed table
\* is the table before the call.)
C1_SequentialInCall ==
    \A p \in Range(Paintings) :
        LET mine == RowsFor(1, p.code)
            n == PrefixCount(inventory, p.code)
        IN  ( /\ InProgress(1)
              /\ ~call[1].dry_run
              /\ \A i \in mine : /\ Parsed(call[1].df[i]).sequence = PLACEHOLDER
                                 /\ OtherwiseValid(1, i) )
            => \A i \in mine :
                   SequenceOf(call[1].rows[i].serial_number)
                       = FourDigits(n + Cardinality({j \in mine : j <= i}))

\* C2: a validated row whose final serial is the serial of an inventory row
\* that exists already, one added by an earlier row of the same call
\* included, gets the error "Serial number already exists in inventory" and
\* nothing is added for it; so with a single writer the committed table
\* together with the session never holds a serial twice, and no call fails
\* at commit.
C2_DuplicateRejected ==
    /\ ~UniqueViolation(inventory \o call[1].session)
    /\ call[1].error # IntegrityError
    /\ (call[1].pc = "loop" /\ call[1].rows # <<>>) =>
           LET last == call[1].rows[Len(call[1].rows)]
               copies == Cardinality({i \in DOMAIN Visible(1) :
                             Visible(1)[i].serial_number = last.serial_number})
           IN  /\ Has(last.errors, DuplicateError) => copies = 1
               /\ (last.errors = <<>> /\ ~call[1].dry_run) => copies = 1
               /\ (last.errors = <<>> /\ call[1].dry_run) => copies = 0

\* a second row of a call was rejected as a duplicate of the row before it
C2_Witness ==
    /\ call[1].pc = "loop"
    /\ Len(call[1].rows) = 2
    /\ call[1].rows[1].errors = <<>>
    /\ call[1].rows[2].errors = <<DuplicateError>>
    /\ call[1].rows[2].serial_number = call[1].rows[1].serial_number
    /\ Len(call[1].session) = 1
    /\ inventory = <<>>

\* C3: for a row that passed validation the final serial differs from the
\* parsed serial in its sequence segment at most: with the placeholder 0000
\* it is PTG-<parsed painting>-<parsed variant>-<parsed location>-
\* nextSequence(existingCount), otherwise it is the serial text itself.
C3_OnlySequenceChanges ==
    (call[1].pc = "row" /\ call[1].cur.validated) =>
        LET cur == call[1].cur
            parsed == parse_serial_number(cur.serial_raw).components
        IN  cur.inventory_serial =
                IF parsed.sequence = PLACEHOLDER
                THEN PTG \o HYPHEN \o parsed.painting_code \o HYPHEN
                         \o parsed.variant_code \o HYPHEN \o parsed.location_code
                         \o HYPHEN \o FourDigits(cur.existing_count + 1)
                ELSE cur.serial_raw

\* C4: a dry run leaves the catalog as it was: no step of a dry-run call
\* changes the inventory table, adds a record to the session or issues a
\* commit; its accepted rows are counted in imported, and the result says
\* dry_run.
C4_DryRunFrame ==
    [][ (call[1].dry_run /\ call[1].pc \in {"loop", "row"}) =>
            /\ inventory' = inventory
            /\ call'[1].session = <<>>
            /\ call'[1].log = <<>>
            /\ call'[1].imported =
                   Cardinality({i \in DOMAIN call'[1].rows : call'[1].rows[i].errors = <<>>})
            /\ call'[1].pc = "returned" =>
                   /\ call'[1].result.dry_run
                   /\ call'[1].result.imported = call[1].imported
                   /\ call'[1].result.rows = call[1].rows ]_vars

\* a dry run returned with an accepted row, over a table that holds rows
C4_Witness ==
    /\ call[1].pc = "returned"
    /\ call[1].result.dry_run
    /\ call[1].result.imported >= 1
    /\ inventory # <<>>

\* C5: two non-dry-run calls that overlap and assign the next sequence of
\* one painting from the same count collide at the duplicate check: the two
\* rows never both pass it, and the losing call still returns a result.
Colliding(c, d, i, j) ==
    /\ c # d
    /\ ~call[c].dry_run /\ ~call[d].dry_run
    /\ i \in Done(c) /\ j \in Done(d)
    /\ Parses(call[c].df[i]) /\ Parsed(call[c].df[i]).sequence = PLACEHOLDER
    /\ Parses(call[d].df[j]) /\ Parsed(call[d].df[j]).sequence = PLACEHOLDER
    /\ call[c].rows[i].serial_number = call[d].rows[j].serial_number

C5_CaughtAtDuplicateCheck ==
    \A c, d \in Workers :
        /\ call[c].error # IntegrityError
        /\ \A i \in Done(c), j \in Done(d) :
               Colliding(c, d, i, j) =>
                   ~(call[c].rows[i].errors = <<>> /\ call[d].rows[j].errors = <<>>)

\* C5, amended: the inventory never holds a serial twice.  When the two rows
\* have both passed the duplicate check, the calls do not both return: the
\* call that commits second fails at commit on the uniqueness constraint and
\* returns no result.  The loser is rejected at the duplicate check, and
\* returns a result, only when the winner committed before that check.
C5_FirstCommitWins ==
    /\ ~UniqueViolation(inventory)
    /\ \A c, d \in Workers :
           /\ call[c].error = IntegrityError =>
                  call[c].pc = "raised" /\ call[c].result = NoResult
           /\ \A i \in Done(c), j \in Done(d) :
                  ( /\ Colliding(c, d, i, j)
                    /\ call[c].rows[i].errors = <<>>
                    /\ call[d].rows[j].errors = <<>> )
                  => /\ ~(call[c].pc = "returned" /\ call[d].pc = "returned")
                     /\ (call[c].pc = "returned" /\ call[d].pc = "raised") =>
                            Cardinality({k \in DOMAIN inventory :
                                inventory[k].serial_number = call[c].rows[i].serial_number}) = 1

\* both rows passed the duplicate check; worker 1 committed, worker 2 failed
C5_Witness ==
    /\ call[1].pc = "returned"
    /\ call[2].pc = "raised"
    /\ call[2].error = IntegrityError
    /\ \E i \in Done(1), j \in Done(2) :
           /\ Colliding(1, 2, i, j)
           /\ call[1].rows[i].errors = <<>>
           /\ call[2].rows[j].errors = <<>>

\* the message of a row whose serial text does not parse
UnparsedError(row) == IF SerialText(row) = <<>> THEN SerialRequired ELSE FormatError

\* C6: a row whose serial text is empty or outside the grammar has, whatever
\* its location column holds, no painting, variant or location code and
\* exactly one error: "Serial number is required" or the FormatError.
C6_UnparsedRowUnresolved ==
    \A i \in Done(1) :
        ~Parses(call[1].df[i]) =>
            /\ call[1].rows[i].painting_code = None
            /\ call[1].rows[i].variant_code = None
            /\ call[1].rows[i].location_code = None
            /\ call[1].rows[i].errors = <<UnparsedError(call[1].df[i])>>

\* C6, amended: such a row has no painting and no variant code and no
\* painting or variant error.  Its location code is null only when the
\* location column is empty; otherwise it is the column's text, trimmed and
\* uppercased, and that code is looked up: the error list is the serial
\* message, followed by "Location code '<code>' not found" exactly when the
\* column names no location of the catalog.  The row counts as failed once.
C6_UnparsedRowAdoptsColumn ==
    /\ call[1].failed = Cardinality({i \in Done(1) : call[1].rows[i].errors # <<>>})
    /\ \A i \in Done(1) :
           ~Parses(call[1].df[i]) =>
               LET column == LocationColumn(call[1].df[i])
                   known == \E k \in DOMAIN Locations : Locations[k].code = column
               IN  /\ call[1].rows[i].painting_code = None
                   /\ call[1].rows[i].variant_code = None
                   /\ call[1].rows[i].location_code =
                          IF column = <<>> THEN None ELSE Some(column)
                   /\ call[1].rows[i].errors =
                          <<UnparsedError(call[1].df[i])>>
                              \o IF column # <<>> /\ ~known
                                 THEN <<LocationNotFound(column)>> ELSE <<>>

\* a blank serial with a known location column, and a serial outside the
\* grammar with an unknown one
C6_Witness ==
    /\ call[1].pc = "returned"
    /\ \E i \in Done(1) :
           /\ SerialText(call[1].df[i]) = <<>>
           /\ call[1].rows[i].location_code = Some(<<"S","T">>)
           /\ Len(call[1].rows[i].errors) = 1
    /\ \E i \in Done(1) :
           /\ SerialText(call[1].df[i]) = SERIAL_BAD
           /\ Len(call[1].rows[i].errors) = 2

\* C7: every sheet row yields one ImportRow, in input order, with row number
\* index + 2, whatever happened to the rows before it; it adds 1 to imported
\* exactly when its error list is empty and 1 to failed otherwise, so that
\* imported + failed is the number of rows; a row without errors has its
\* painting, variant and location resolved.
C7_EveryRowCountedOnce ==
    LET c == call[1]
        reading == IF c.pc = "row" THEN 1 ELSE 0
    IN  /\ Len(c.rows) = Len(c.df) - reading
        /\ \A i \in Done(1) :
               /\ c.rows[i].row_number = (i - 1) + 2
               /\ c.rows[i].item_desc = Strip(c.df[i].item_desc)
               /\ c.rows[i].stocked = _normalize_int(c.df[i].stocked)
               /\ c.rows[i].sold = _normalize_int(c.df[i].sold)
               /\ c.rows[i].errors = <<>> =>
                      /\ Parses(c.df[i])
                      /\ \E k \in DOMAIN Paintings :
                             /\ Paintings[k].code = Parsed(c.df[i]).painting_code
                             /\ \E v \in DOMAIN ProductVariants :
                                    /\ ProductVariants[v].painting_id = Paintings[k].id
                                    /\ ShortCode(ProductVariants[v]) = Parsed(c.df[i]).variant_code
                      /\ \E k \in DOMAIN Locations :
                             Locations[k].code = Parsed(c.df[i]).location_code
        /\ c.imported = Cardinality({i \in Done(1) : c.rows[i].errors = <<>>})
        /\ c.failed = Cardinality({i \in Done(1) : c.rows[i].errors # <<>>})
        /\ c.imported + c.failed = Len(c.rows)
        /\ c.pc = "returned" =>
               /\ c.result.rows = c.rows
               /\ c.result.imported + c.result.failed = Len(c.df)
               /\ c.result.imported = c.imported
               /\ c.result.failed = c.failed

\* a result of three rows: a rejected one between two accepted ones
C7_Witness ==
    /\ call[1].pc = "returned"
    /\ Len(call[1].result.rows) = 3
    /\ call[1].result.rows[1].errors = <<>>
    /\ call[1].result.rows[2].errors # <<>>
    /\ call[1].result.rows[3].errors = <<>>
    /\ call[1].result.imported = 2
    /\ call[1].result.failed = 1

\* the inventory record an accepted ImportRow stands for, looked up in the
\* catalog by the row's own codes
RecordOf(r) ==
    LET p == PaintingByCode(r.painting_code.val)
    IN  InventoryItem(p.id, VariantByShortCode(p, r.variant_code.val).id,
                      LocationByCode(r.location_code.val).id,
                      r.serial_number, r.quantity, 0, 0)

AcceptedRows(c) == SelectSeq(call[c].rows, LAMBDA r : r.errors = <<>>)

AddsOf(c) == SelectSeq(call[c].log, LAMBDA e : e.op = "add")

CommitsOf(c) == SelectSeq(call[c].log, LAMBDA e : e.op = "commit")

C8_OneAddPerAcceptedRow ==
    \A c \in Workers :
        (call[c].pc # "idle" /\ ~call[c].dry_run) =>
            /\ Len(AddsOf(c)) = Len(AcceptedRows(c))
            /\ Len(AddsOf(c)) = call[c].imported
            /\ \A k \in DOMAIN AddsOf(c) : AddsOf(c)[k].item = RecordOf(AcceptedRows(c)[k])
            /\ InProgress(c) => CommitsOf(c) = <<>>
            /\ call[c].pc = "returned" =>
                   /\ Len(CommitsOf(c)) = 1
                   /\ call[c].log[Len(call[c].log)].op = "commit"
            /\ call[c].error = IntegrityError =>
                   /\ Len(CommitsOf(c)) = 1
                   /\ call[c].log[Len(call[c].log)].op = "commit"
                   /\ call[c].result = NoResult

C8_CommitAllOrNothing ==
    \A c \in Workers :
        (call[c].pc = "loop" /\ ~call[c].dry_run) =>
            /\ call'[c].pc = "returned" =>
                   inventory' = inventory \o [k \in 1..Len(AddsOf(c)) |-> AddsOf(c)[k].item]
            /\ call'[c].pc = "raised" => inventory' = inventory

\* C8: a non-dry-run call requests one inventory creation per accepted row,
\* with that row's painting, variant, location, final serial and quantity
\* and cost and price 0, and none for a rejected row, so the creations are
\* as many as imported; it issues one commit, after the last row; the commit
\* stores every creation of the batch, or fails the call and stores none.
C8_BatchPersistence == []C8_OneAddPerAcceptedRow /\ [][C8_CommitAllOrNothing]_vars

\* a commit failed after a creation was requested, over a table with rows
C8_Witness ==
    \E c \in Workers :
        /\ call[c].error = IntegrityError
        /\ Len(AddsOf(c)) >= 1
        /\ call[c].failed >= 1
        /\ inventory # <<>>

\* C9: a row whose serial parses and whose location column is non-empty and
\* differs from the serial's location segment is rejected with "Location
\* column does not match serial number", whether or not either code is in
\* the catalog; the ImportRow carries the parsed location code, and the
\* parsed code, never the column's, is the one looked up.
C9_LocationColumnMismatch ==
    \A i \in Done(1) :
        LET row == call[1].df[i]
            column == LocationColumn(row)
        IN  (Parses(row) /\ column # <<>> /\ column # Parsed(row).location_code) =>
                /\ Has(call[1].rows[i].errors, LocationMismatch)
                /\ call[1].rows[i].location_code = Some(Parsed(row).location_code)
                /\ ~Has(call[1].rows[i].errors, LocationNotFound(column))
                /\ Has(call[1].rows[i].errors, LocationNotFound(Parsed(row).location_code))
                       <=> ~\E k \in DOMAIN Locations :
                               Locations[k].code = Parsed(row).location_code
                /\ call[1].failed >= 1

\* three rejected rows: both codes in the catalog; the column's code not in
\* it; the serial's code not in it
C9_Witness ==
    /\ call[1].pc = "returned"
    /\ \E i, j, k \in Done(1) :
           /\ call[1].rows[i].errors = <<LocationMismatch>>
           /\ LocationColumn(call[1].df[i]) = <<"S","T">>
           /\ Has(call[1].rows[j].errors, LocationMismatch)
           /\ LocationColumn(call[1].df[j]) = <<"N","O">>
           /\ Has(call[1].rows[k].errors, LocationMismatch)
           /\ Has(call[1].rows[k].errors, LocationNotFound(<<"N","O">>))

\* the required columns in alphabetical order
ALPHABETICAL == <<foreign_key, item_desc, location, quantity, sold, stocked>>

\* C10: when a required column is absent from the header, the call raises
\* one error that names the missing columns, alphabetically and joined by
\* ", ", before any row is read: no row, no lookup, no creation, no commit,
\* no ImportResult.  A call that reads rows has every required column.
C10_MissingColumnsAbort ==
    LET absent == {col \in Range(ALPHABETICAL) : col \notin call[1].columns}
        named == Join(<<",", " ">>, SelectSeq(ALPHABETICAL, LAMBDA col : col \in absent))
    IN  (call[1].pc # "idle" /\ absent # {}) =>
            /\ call[1].pc = "raised"
            /\ call[1].error = Msg("Missing required columns: %s", <<named>>)
            /\ call[1].df = <<>>
            /\ call[1].cur = NoRow
            /\ call[1].rows = <<>>
            /\ call[1].session = <<>>
            /\ call[1].log = <<>>
            /\ call[1].result = NoResult

\* a header without quantity, sold and stocked was refused
C10_Witness ==
    /\ call[1].pc = "raised"
    /\ call[1].columns = {foreign_key, item_desc, location}
    /\ inventory # <<>>

---------------------------------------------------------------------------
\* the canonical grammar: PTG-, a painting code of 2-10 uppercase
\* alphanumerics, a variant code of 2-12, a location code of 2-8 and a
\* sequence of exactly 4 ASCII digits, separated by single hyphens
GrammarCode(seg, lo, hi) ==
    Len(seg) \in lo..hi /\ \A i \in DOMAIN seg : seg[i] \in UPPER_ALNUM

Canonical(t) ==
    LET n == Len(t)
    IN  /\ n >= 9
        /\ SubSeq(t, 1, 4) = PTG \o HYPHEN
        /\ t[n - 4] = "-"
        /\ \A i \in (n - 3)..n : t[i] \in Range(DIGIT_CHARS)
        /\ \E b, c \in 5..(n - 5) :
              /\ b < c
              /\ t[b] = "-"
              /\ t[c] = "-"
              /\ GrammarCode(SubSeq(t, 5, b - 1), 2, 10)
              /\ GrammarCode(SubSeq(t, b + 1, c - 1), 2, 12)
              /\ GrammarCode(SubSeq(t, c + 1, n - 5), 2, 8)

\* C11: parse accepts a text if and only if the trimmed text is in the
\* canonical grammar (with a sequence of exactly 4 ASCII digits), and fails
\* with the one FormatError otherwise; for an accepted canonical string S,
\* formatting the parsed components gives back S, and the parsed segments
\* are the segments S was built from.
C11_ParseGrammar ==
    codec.pc \in {"parsed", "formatted"} =>
        /\ ~codec.parsed.raised <=> Canonical(Strip(codec.text))
        /\ codec.parsed.raised => codec.parsed.error = FormatError
        /\ (codec.pc = "formatted" /\ Canonical(codec.text)) =>
              /\ codec.formatted = codec.text
              /\ codec.parsed.components =
                     SerialComponents(codec.segments[1], codec.segments[2],
                                      codec.segments[3], codec.segments[4])

---------------------------------------------------------------------------
\* the catalog rows an inventory row links to
PaintingOf(item) == CHOOSE p \in Range(Paintings) : p.id = item.painting_id

VariantOf(item) == CHOOSE v \in Range(ProductVariants) : v.id = item.variant_id

LocationOf(item) == CHOOSE l \in Range(Locations) : l.id = item.location_id

\* C12: every inventory row persisted by reconcile has a serial number in
\* the canonical grammar (so a sequence of exactly 4 digits), whose
\* painting, variant and location segments are the code of the linked
\* painting, the short code of the linked variant and the code of the
\* linked location.
C12_PersistedSerialCanonical ==
    \A i \in DOMAIN inventory :
        LET item == inventory[i]
            parts == Split(item.serial_number, "-")
        IN  /\ Canonical(item.serial_number)
            /\ parts[2] = PaintingOf(item).code
            /\ parts[3] = ShortCode(VariantOf(item))
            /\ parts[4] = LocationOf(item).code

---------------------------------------------------------------------------
\* the committed table as it was when the returned call of worker c began
\* (a single writer: the call's own adds are the tail of the table)
InventoryBefore(c) ==
    SubSeq(inventory, 1, Len(inventory) - Len(AddsOf(c)))

\* C13: a dry run is a faithful preview: for the same rows and the same
\* starting catalog, a non-dry-run reconcile returns the ImportRow list
\* (final serial numbers and errors per row) and the imported and failed
\* counts that the dry run returns.
C13_DryRunFaithful ==
    (call[1].pc = "returned" /\ ~call[1].dry_run) =>
        LET preview == DryRun(call[1].df, InventoryBefore(1))
        IN  /\ call[1].result.rows = preview.rows
            /\ call[1].result.imported = preview.imported
            /\ call[1].result.failed = preview.failed

\* the dry-run calls of the state machine return what DryRun computes
DryRunAgrees ==
    (call[1].pc = "returned" /\ call[1].dry_run) =>
        call[1].result = DryRun(call[1].df, inventory)

---------------------------------------------------------------------------
MismatchErrors ==
    { Msg("Painting code in serial number does not match record.", <<>>),
      Msg("Variant code in serial number does not match record.", <<>>),
      Msg("Location code in serial number does not match record.", <<>>) }

Resolved(cur) ==
    cur.painting # NoPainting /\ cur.variant # NoVariant /\ cur.location # NoLocation

\* C14: inside reconcile the validation of the serial against the expected
\* components never fails: no row carries a "... in serial number does not
\* match record." error, and every row whose painting, variant and location
\* resolved with no error proceeds to the sequence assignment and the
\* duplicate check.
C14_ValidationNeverFails ==
    \A c \in Workers :
        /\ \A i \in Done(c) :
              \A m \in MismatchErrors : ~Has(call[c].rows[i].errors, m)
        /\ call[c].pc = "row" =>
              /\ \A m \in MismatchErrors : ~Has(call[c].cur.errors, m)
              /\ (Resolved(call[c].cur) /\ call[c].cur.errors = <<>>) =>
                     call[c].cur.validated

\* a row of the painting P0000 resolved, passed the validation, and was
\* given its ImportRow after the duplicate check
C14_Witness ==
    /\ call[1].pc = "loop"
    /\ Len(call[1].rows) = 1
    /\ call[1].cur.validated
    /\ call[1].cur.painting.id = 2
    /\ call[1].rows[1].errors = <<>>

=============================================================================
